---- MODULE Spec2Model ----
(***************************************************************************)
(* Model of the browser voice-call client (src/public/app.js).             *)
(*                                                                         *)
(* The page runs on one event loop.  Every action below is one task of     *)
(* that loop: a DOM click, a timer callback, a transport callback, or the  *)
(* continuation of an async function after one of its awaits settles.      *)
(*                                                                         *)
(* A handle variable of the program is modelled by what it refers to:      *)
(* peerConnection by the state of the connection it holds (NullPC for      *)
(* null), the other handles by 0 (null) or 1 (a live object), and          *)
(* sessionExpiryTimeout by "null", "live" (a pending timeout) or "dead"    *)
(* (a timeout that fired or was cleared).  Objects the program holds no    *)
(* handle to are kept only while they can still act, and without           *)
(* identity: open connections no variable refers to (strays), pending      *)
(* timeouts (warnPending, hardTimers) and the startCall invocations that   *)
(* have not returned (inflight).  A capture stream, audio context or       *)
(* sampling interval whose handle is overwritten can no longer act on the  *)
(* program and is not kept: the step that overwrites a live handle is      *)
(* where it becomes unreachable.                                           *)
(***************************************************************************)
EXTENDS Integers, Sequences, FiniteSets, TLC

\* ---------------------------------------------------------------- bounds
MaxPending == 2
MaxStrays == 1
MaxHardTimers == 2
MaxLog == 10
MaxWindows == 1
MaxUpstream == 2

\* ------------------------------------------------------- program constants
MAX_RECONNECT_ATTEMPTS == 3
WARNING_LEAD == 60000
MAX_SESSIONS_PER_IP == 10
RATE_LIMIT_WINDOW == 3600000

IDLE == "idle"
CONNECTING == "connecting"
CONNECTED == "connected"
LISTENING == "listening"
THINKING == "thinking"
DISCONNECTED == "disconnected"
ERROR == "error"

ConnectionState ==
  {IDLE, CONNECTING, CONNECTED, LISTENING, THINKING, DISCONNECTED, ERROR}

\* expires_at - Date.now() of a token response, in ms
ExpiryDeltas == {0 - 1000, 0, 30000, 60000, 90000}

\* message.type values of inbound control-channel payloads ("badjson" is a
\* payload JSON.parse rejects; "error_noobj" an error event without .error)
MessageTypes ==
  {"speech_started", "speech_stopped", "response.created", "response.done",
   "transcript", "function_call", "function_call_badargs",
   "error_session_expired", "error_other", "error_noobj",
   "rate_limits.updated", "unknown", "badjson"}

VARIABLES
  currentState, reconnectAttempts, peerConnection, dataChannel,
  audioContext, mediaStream, sessionExpiryTimeout, audioLevelInterval,
  startBtnDisabled, endBtnDisabled,
  inflight, backoffs,
  strays, warnPending, hardTimers,
  preEnd, caught, errorShown, received, fired, closed, started,
  pure, statusLog, attemptLog,
  missing, loadDue,
  now, rateLimitMap, answer, counted, upstream, keyConfigured

globals ==
  <<currentState, reconnectAttempts, peerConnection, dataChannel,
    audioContext, mediaStream, sessionExpiryTimeout, audioLevelInterval,
    startBtnDisabled, endBtnDisabled>>
coroutines == <<inflight, backoffs>>
objects == <<strays, warnPending, hardTimers>>
history ==
  <<preEnd, caught, errorShown, received, fired, closed, started,
    pure, statusLog, attemptLog>>
browser == <<missing, loadDue>>
endpoint == <<now, rateLimitMap, answer, counted, upstream, keyConfigured>>
vars == <<globals, coroutines, objects, history, browser, endpoint>>

\* ------------------------------------------------------- browser objects
\* missing: the APIs among those the 'load' listener tests that the browser
\* lacks; it does not change while the page lives.
\* loadDue: the 'load' listener has yet to run and will find an API missing.
\* In a browser that has both, the listener only logs and its run is not a
\* step.
Apis == {"getUserMedia", "RTCPeerConnection"}

\* A connection: sig is its signalling progress ("new", "offered" once the
\* local offer is set, "stable" once the remote answer is set), conn its
\* connectionState ("ok" stands for new, connecting and connected), dc the
\* readyState of its data channel.
NullPC == [sig |-> "null", conn |-> "null", dc |-> "null"]
NewPC == [sig |-> "new", conn |-> "ok", dc |-> "connecting"]

\* an open connection no variable refers to: its handshake has not
\* completed ("signalling": it raises no event; it completes only if a
\* setRemoteDescription called on it before it was replaced resolves), its
\* handshake has completed and its data channel may open ("connecting"), or
\* its data channel is open and delivers messages ("open")
StrayKind(p) ==
  IF p.sig # "stable" THEN "signalling"
  ELSE IF p.dc = "open" THEN "open" ELSE "connecting"

StrayKinds == {"signalling", "connecting", "open"}
NoStrays == [k \in StrayKinds |-> 0]

\* The startCall invocations that have not returned, counted by the await
\* they are suspended at.  A call on a connection is made on the connection
\* peerConnection holds when the call is made, and settles on that one:
\*   "token"     the token request
\*   "mic"       getUserMedia
\*   "offer"     createOffer on the connection the invocation constructed,
\*               which peerConnection still holds
\*   "sld"       setLocalDescription on the connection peerConnection holds,
\*               which created the offer
\*   "sldStray"  setLocalDescription on a connection that has been replaced
\*               since the call
\*   "sdp"       the remote offer/answer exchange
\*   "srd"       setRemoteDescription on the connection peerConnection holds
\*   "srdStray"  setRemoteDescription on a connection with a local offer
\*               that has been replaced since the call
\*   "lost"      a createOffer or description call that cannot succeed any
\*               more: its connection has been closed, its offer belongs to
\*               a connection peerConnection no longer holds, or its
\*               connection was replaced without a local offer
Awaits ==
  {"token", "mic", "offer", "sld", "sldStray", "sdp", "srd", "srdStray",
   "lost"}
NoInvocations == [a \in Awaits |-> 0]

RECURSIVE Total(_, _)
Total(f, S) ==
  IF S = {} THEN 0
  ELSE LET x == CHOOSE y \in S : TRUE IN f[x] + Total(f, S \ {x})

Count(f) == Total(f, DOMAIN f)

\* the startCall invocations in flight or scheduled by a backoff delay
Pending == Count(inflight) + backoffs

\* an invocation suspended at a leaves the counts f / joins them
Leave(f, a) == [f EXCEPT ![a] = @ - 1]
Join(f, a) == [f EXCEPT ![a] = @ + 1]

\* the invocations f once the connection peerConnection holds is closed: the
\* calls pending on it are lost
Closed(f) ==
  [f EXCEPT !["offer"] = 0, !["sld"] = 0, !["srd"] = 0,
            !["lost"] = @ + f["offer"] + f["sld"] + f["srd"]]

\* the invocations f once peerConnection, which held p, holds another
\* connection: a pending createOffer will hand its offer to a connection
\* that did not create it, a pending setLocalDescription goes on, and a
\* pending setRemoteDescription goes on if p has a local offer
Replaced(f, p) ==
  [f EXCEPT !["offer"] = 0, !["sld"] = 0, !["srd"] = 0,
            !["sldStray"] = @ + f["sld"],
            !["srdStray"] = @ + (IF p.sig = "offered" THEN f["srd"] ELSE 0),
            !["lost"] = @ + f["offer"]
                          + (IF p.sig = "offered" THEN 0 ELSE f["srd"])]

\* --------------------------------------------------------------- history
\* statusLog / attemptLog: the values passed to updateStatus and assigned to
\* reconnectAttempts since page load, kept for as long as the run consists
\* only of Start clicks, start-sequence steps, control-channel opens, failed
\* connection states and backoff expiries (pure), up to MaxLog entries.
Void == pure' = FALSE /\ statusLog' = <<>> /\ attemptLog' = <<>>

Record(ss, as) ==
  IF pure /\ Len(statusLog) + Len(ss) <= MaxLog
          /\ Len(attemptLog) + Len(as) <= MaxLog
  THEN /\ pure' = TRUE
       /\ statusLog' = statusLog \o ss
       /\ attemptLog' = attemptLog \o as
  ELSE Void

\* caught: the await at which the startCall invocation was suspended whose
\* catch block the last step ran ("none" when it ran no catch block)
NotCaught == caught' = "none"

\* errorShown: which showError call the last step made: that of the catch
\* block of startCall ("start"), of the 'error' case of handleServerMessage
\* ("server"), of handleReconnection ("lost") or of the 'load' listener
\* ("load", one call for each missing API); "none" when it made none.
NoError == errorShown' = "none"

\* received: the type of the control-channel message the last step
\* dispatched, recorded when the run up to that message was pure ("none"
\* otherwise)
NotReceived == received' = "none"

\* fired: which auto-disconnect timeout the last step fired: that of the
\* session in progress ("cur") or one of an earlier session ("old"), recorded
\* when the run up to that step was pure ("none" otherwise)
NotFired == fired' = "none"

\* closed: what the last step released, in the order in which it did,
\* recorded when the run up to that step was pure (<<>> otherwise)
NothingClosed == closed' = <<>>

\* started: the last step stored a new sampling interval
\* (startAudioLevelMonitoring reached its setInterval, which returned)
NotStarted == started' = FALSE

\* -------------------------------------------------- token endpoint: data
\* The token endpoint (src/api/session.js) is a second program, with a
\* specification of its own (SpecEndpoint): the page steps leave its
\* variables alone and its steps leave those of the page alone.
\*   now           Date.now() of the server, in ms
\*   rateLimitMap  the Map of the module: a function from the keys it holds
\*                 to their { count, timestamp } entries
\*   answer        the request the last step worked on: its method, its key
\*                 ("" when the step did not read it), the status the step
\*                 answered it with (0 when the step sent no answer) and
\*                 what the rate-limit branch did with it in the step:
\*                 "limited" (refused), "passed" (counted) or "none" (the
\*                 step did not run the branch); NoAnswer when the last step
\*                 worked on no request
\*   counted       for each key of which a POST has passed the rate-limit
\*                 check, the time of the first such POST of its current
\*                 window and the number of its POSTs that passed since,
\*                 kept independently of the Map
\*   upstream      the number of handler invocations suspended at their
\*                 upstream request (none of them reads its key again)
\*   keyConfigured process.env.OPENAI_API_KEY is set and starts with 'sk-';
\*                 it does not change while the module lives
\* the values of x-forwarded-for ("" for a missing or empty header) and of
\* socket.remoteAddress
Keys == {"a", "b"}
Forwarded == {""} \cup Keys
Methods == {"OPTIONS", "GET", "POST"}

\* the times at which requests arrive: around the start and the end of each
\* of the first MaxWindows windows
Instants ==
  {t \in UNION {{k * RATE_LIMIT_WINDOW - 1, k * RATE_LIMIT_WINDOW,
                 k * RATE_LIMIT_WINDOW + 1} : k \in 0..MaxWindows} : t >= 0}

EmptyMap == [k \in {} |-> [count |-> 0, timestamp |-> 0]]
NoAnswer == [method |-> "none", ip |-> "", status |-> 0, check |-> "none"]
NothingCounted == [k \in {} |-> [first |-> 0, n |-> 0]]

\* ------------------------------------------------------------------ Init
\* the page as loaded and the module of the endpoint as loaded
Loaded ==
  /\ currentState = IDLE
  /\ reconnectAttempts = 0
  /\ peerConnection = NullPC
  /\ dataChannel = 0
  /\ audioContext = 0
  /\ mediaStream = 0
  /\ sessionExpiryTimeout = "null"
  /\ audioLevelInterval = 0
  /\ startBtnDisabled = FALSE
  /\ endBtnDisabled \in BOOLEAN
  /\ inflight = NoInvocations
  /\ backoffs = 0
  /\ strays = NoStrays
  /\ warnPending = 0
  /\ hardTimers = [cur |-> 0, old |-> 0]
  /\ preEnd = "none"
  /\ caught = "none"
  /\ errorShown = "none"
  /\ received = "none"
  /\ fired = "none"
  /\ closed = <<>>
  /\ started = FALSE
  /\ pure = TRUE
  /\ statusLog = <<>>
  /\ attemptLog = <<>>
  /\ missing \in SUBSET Apis
  /\ loadDue = (missing # {})
  /\ now = 0
  /\ rateLimitMap = EmptyMap
  /\ answer = NoAnswer
  /\ counted = NothingCounted
  /\ upstream = 0
  /\ keyConfigured \in BOOLEAN

\* the page, served by an endpoint whose API key is configured
Init == Loaded /\ keyConfigured

\* ----------------------------------------------------------------- timers
\* pending warning timeouts after clearTimeout(sessionExpiryTimeout)
ClearTimeout(n, h) == IF h = "live" THEN n - 1 ELSE n

\* variant: the warning is armed also when it is due at once
ArmsWarningAtLead(d) == d - WARNING_LEAD >= 0

\* setupSessionExpiry: which timers a token expiring d ms from now arms
ArmsWarning(d) == d - WARNING_LEAD > 0
ArmsHardStop(d) == d > 0

\* --------------------------------------------------------------- endCall
\* variant: endCall sets Disconnected whatever the status
EndCallStatusOverwrites(st) == DISCONNECTED

\* status left by endCall when it is entered with status st
EndCallStatus(st) == IF st # ERROR THEN DISCONNECTED ELSE st

\* <<x>> if c, nothing otherwise
Opt(c, x) == IF c THEN <<x>> ELSE <<>>

\* what endCall releases, in its order, when it is entered with
\* sessionExpiryTimeout = h, mediaStream = ms and audioContext = ac: each
\* release is guarded by a test of its handle
Closes(h, ms, ac) ==
  Opt(h # "null", "timers")
  \o Opt(audioLevelInterval # 0, "monitor")
  \o Opt(dataChannel # 0, "channel")
  \o Opt(peerConnection # NullPC, "transport")
  \o Opt(ms # 0, "tracks")
  \o Opt(ac # 0, "context")

EndCallCloses == Closes(sessionExpiryTimeout, mediaStream, audioContext)

\* endCall() at the end of a step that first released the things before and
\* left wp warning timeouts pending, sessionExpiryTimeout = h, mediaStream =
\* ms and audioContext = ac.  It is entered with status st, auto-disconnect
\* timeouts ht and invocations fl.  The auto-disconnect timeouts stay
\* pending (the program keeps no handle to them); they now belong to an
\* ended session.
EndCallAfter(st, ht, fl, wp, h, ms, ac, before) ==
  /\ warnPending' = ClearTimeout(wp, h)
  /\ sessionExpiryTimeout' = "null"
  /\ audioLevelInterval' = 0
  /\ dataChannel' = 0
  /\ peerConnection' = NullPC
  /\ inflight' = Closed(fl)
  /\ mediaStream' = 0
  /\ audioContext' = 0
  /\ currentState' = EndCallStatus(st)
  /\ startBtnDisabled' = FALSE
  /\ endBtnDisabled' = TRUE
  /\ reconnectAttempts' = 0
  /\ hardTimers' = [cur |-> 0, old |-> ht.old + ht.cur]
  /\ preEnd' = st
  /\ closed' = IF pure THEN before \o Closes(h, ms, ac) ELSE <<>>
  /\ UNCHANGED strays

\* endCall(), entered with status st, auto-disconnect timeouts ht and
\* invocations fl, in a step that did nothing else to the handles
EndCall(st, ht, fl) ==
  EndCallAfter(st, ht, fl, warnPending, sessionExpiryTimeout, mediaStream,
               audioContext, <<>>)

\* the 'beforeunload' listener: it calls endCall while the status is
\* Connected, Listening or Thinking (the page lives on when the navigation
\* does not replace it)
BeforeUnload ==
  /\ currentState \in {CONNECTED, LISTENING, THINKING}
  /\ EndCall(currentState, hardTimers, inflight)
  /\ NotCaught /\ NoError /\ NotReceived /\ NotFired
  /\ Void
  /\ UNCHANGED backoffs
  /\ NotStarted
  /\ UNCHANGED <<browser, endpoint>>

\* the 'load' listener in a browser that lacks getUserMedia or
\* RTCPeerConnection: it shows the error and disables the Start control
Load ==
  /\ loadDue
  /\ loadDue' = FALSE
  /\ startBtnDisabled' = TRUE
  /\ errorShown' = "load"
  /\ preEnd' = "none"
  /\ NotCaught /\ NotReceived /\ NotFired /\ NothingClosed /\ NotStarted
  /\ Void
  /\ UNCHANGED <<currentState, reconnectAttempts, peerConnection, dataChannel,
                 audioContext, mediaStream, sessionExpiryTimeout,
                 audioLevelInterval, endBtnDisabled, coroutines, objects,
                 missing, endpoint>>

\* click on the End control
EndClick ==
  /\ ~endBtnDisabled
  /\ EndCall(currentState, hardTimers, inflight)
  /\ NotCaught /\ NoError /\ NotReceived /\ NotFired
  /\ Void
  /\ UNCHANGED backoffs
  /\ NotStarted
  /\ UNCHANGED <<browser, endpoint>>

\* ------------------------------------------------------------- startCall
\* variant: no status update after getUserMedia
StartCallUpdatesTwo(at) ==
  IF at \in {"entry", "token"} THEN <<CONNECTING>> ELSE <<>>

\* the statuses startCall passes to updateStatus, in order, when it is
\* entered ("entry") and when it resumes after the await named at
StartCallUpdates(at) ==
  IF at \in {"entry", "token", "mic"} THEN <<CONNECTING>> ELSE <<>>

\* the status after the updateStatus calls ss, from status st
After(st, ss) == IF ss = <<>> THEN st ELSE ss[Len(ss)]

\* startCall() up to its first await (the token request)
StartCallEntry ==
  /\ inflight' = Join(inflight, "token")
  /\ currentState' = After(currentState, StartCallUpdates("entry"))
  /\ startBtnDisabled' = TRUE
  /\ preEnd' = "none"
  /\ NotCaught /\ NoError /\ NotReceived /\ NotFired /\ NothingClosed
  /\ Record(StartCallUpdates("entry"), <<>>)
  /\ UNCHANGED <<reconnectAttempts, peerConnection, dataChannel, audioContext,
                 mediaStream, sessionExpiryTimeout, audioLevelInterval,
                 endBtnDisabled, objects>>
  /\ NotStarted
  /\ UNCHANGED <<browser, endpoint>>

\* click on the Start control
StartClick ==
  /\ ~startBtnDisabled
  /\ Pending < MaxPending
  /\ StartCallEntry
  /\ UNCHANGED backoffs

\* variant: the catch block reports a plain disconnect
CatchStatusDisconnected == DISCONNECTED

\* the status the catch block of startCall passes to updateStatus
CatchStatus == ERROR

\* variant: the catch block rethrows, so the catch of the handleReconnection
\* that called startCall runs handleReconnection again
CatchRetries(a) ==
  /\ inflight[a] > 0
  /\ IF reconnectAttempts > 0
     THEN /\ warnPending' = ClearTimeout(warnPending, sessionExpiryTimeout)
          /\ sessionExpiryTimeout' = "null"
          /\ audioLevelInterval' = 0
          /\ dataChannel' = 0
          /\ peerConnection' = NullPC
          /\ inflight' = Closed(Leave(inflight, a))
          /\ mediaStream' = 0
          /\ audioContext' = 0
          /\ currentState' = CONNECTING
          /\ startBtnDisabled' = FALSE
          /\ endBtnDisabled' = TRUE
          /\ reconnectAttempts' = 0 + 1
          /\ hardTimers' = [cur |-> 0, old |-> hardTimers.old + hardTimers.cur]
          /\ preEnd' = CatchStatus
          /\ closed' = IF pure THEN EndCallCloses ELSE <<>>
          /\ backoffs' = backoffs + 1
          /\ Record(<<CatchStatus, CONNECTING>>, <<0, 0 + 1>>)
          /\ UNCHANGED strays
     ELSE /\ EndCall(CatchStatus, hardTimers, Leave(inflight, a))
          /\ Record(<<CatchStatus>>, <<0>>)
          /\ UNCHANGED backoffs
  /\ caught' = a
  /\ errorShown' = "start"
  /\ NotReceived /\ NotFired
  /\ NotStarted
  /\ UNCHANGED <<browser, endpoint>>

\* variant: after its catch block the invocation goes on to its next step
CatchGoesOn(a) ==
  /\ inflight[a] > 0
  /\ EndCall(CatchStatus, hardTimers,
             IF a = "token" THEN Join(Leave(inflight, a), "mic")
             ELSE IF a = "mic" THEN Join(Leave(inflight, a), "offer")
             ELSE Leave(inflight, a))
  /\ caught' = a
  /\ errorShown' = "start"
  /\ NotReceived /\ NotFired
  /\ Record(<<CatchStatus>>, <<0>>)
  /\ UNCHANGED backoffs
  /\ NotStarted
  /\ UNCHANGED <<browser, endpoint>>

\* the catch block of startCall, entered by an invocation suspended at a
Catch(a) ==
  /\ inflight[a] > 0
  /\ EndCall(CatchStatus, hardTimers, Leave(inflight, a))
  /\ caught' = a
  /\ errorShown' = "start"
  /\ NotReceived /\ NotFired
  /\ Record(<<CatchStatus>>, <<0>>)
  /\ UNCHANGED backoffs
  /\ NotStarted
  /\ UNCHANGED <<browser, endpoint>>

\* the catch block of startCall, entered by an invocation that resumed after
\* the await a, made the status updates ss, released the things before, left
\* wp warning timeouts pending, auto-disconnect timeouts ht,
\* sessionExpiryTimeout = h, mediaStream = ms and audioContext = ac, and then
\* threw
CatchAfter(a, ss, ht, wp, h, ms, ac, before) ==
  /\ inflight[a] > 0
  /\ EndCallAfter(CatchStatus, ht, Leave(inflight, a), wp, h, ms, ac, before)
  /\ caught' = a
  /\ errorShown' = "start"
  /\ NotReceived /\ NotFired
  /\ Record(ss \o <<CatchStatus>>, <<0>>)
  /\ UNCHANGED backoffs
  /\ NotStarted
  /\ UNCHANGED <<browser, endpoint>>

\* "token": the token request settles.  It fails on a network error, a
\* non-2xx answer, a body that is not JSON, or a missing client_secret or
\* session_id; otherwise the session expires d ms from now.
TokenFail == Catch("token")

\* setupSessionExpiry for a session that expires d ms from now: the pending
\* warning timeouts, sessionExpiryTimeout and the auto-disconnect timeouts
\* it leaves, and what it releases
SetupWarnPending(d) ==
  ClearTimeout(warnPending, sessionExpiryTimeout)
  + (IF ArmsWarning(d) THEN 1 ELSE 0)
SetupTimeout(d) ==
  IF ArmsWarning(d) THEN "live"
  ELSE IF sessionExpiryTimeout = "null" THEN "null" ELSE "dead"
SetupHardTimers(d) ==
  [cur |-> IF ArmsHardStop(d) THEN 1 ELSE 0,
   old |-> hardTimers.old + hardTimers.cur]
SetupCloses == Opt(sessionExpiryTimeout # "null", "timers")

\* the continuation after a token response whose session expires d ms from
\* now, in a browser without getUserMedia: the call of getUserMedia throws
\* (TypeError) in the same task, after the timers are armed and the status
\* updated
TokenOkThrows(d) ==
  /\ "getUserMedia" \in missing
  /\ ArmsHardStop(d) => hardTimers.cur + hardTimers.old < MaxHardTimers
  /\ CatchAfter("token", StartCallUpdates("token"), SetupHardTimers(d),
                SetupWarnPending(d), SetupTimeout(d), mediaStream,
                audioContext, SetupCloses)

\* the continuation after a token response whose session expires d ms from now
TokenOkWith(d) ==
  /\ inflight["token"] > 0
  /\ "getUserMedia" \notin missing
  /\ ArmsHardStop(d) => hardTimers.cur + hardTimers.old < MaxHardTimers
  /\ warnPending' = SetupWarnPending(d)
  /\ sessionExpiryTimeout' = SetupTimeout(d)
  /\ hardTimers' = SetupHardTimers(d)
  /\ currentState' = After(currentState, StartCallUpdates("token"))
  /\ inflight' = Join(Leave(inflight, "token"), "mic")
  /\ preEnd' = "none"
  /\ NotCaught /\ NoError /\ NotReceived /\ NotFired
  /\ closed' = IF pure THEN SetupCloses ELSE <<>>
  /\ Record(StartCallUpdates("token"), <<>>)
  /\ UNCHANGED <<reconnectAttempts, peerConnection, dataChannel, audioContext,
                 mediaStream, audioLevelInterval, startBtnDisabled,
                 endBtnDisabled, backoffs, strays>>
  /\ NotStarted
  /\ UNCHANGED <<browser, endpoint>>

TokenOk == \E d \in ExpiryDeltas : TokenOkWith(d) \/ TokenOkThrows(d)

\* "mic": getUserMedia settles
MicFail == Catch("mic")

\* getUserMedia resolves and the continuation throws: at new AudioContext
\* ("context": the capture stream is stored, audioContext keeps what it
\* held) or at new RTCPeerConnection ("transport": stream and context are
\* stored and the status updated, peerConnection keeps what it held)
MicOkThrows(at) ==
  CatchAfter("mic",
             IF at = "transport" THEN StartCallUpdates("mic") ELSE <<>>,
             hardTimers, warnPending, sessionExpiryTimeout, 1,
             IF at = "transport" THEN 1 ELSE audioContext, <<>>)

MicOk ==
  /\ inflight["mic"] > 0
  /\ "RTCPeerConnection" \notin missing
  /\ peerConnection # NullPC => Count(strays) < MaxStrays
  /\ mediaStream' = 1
  /\ audioContext' = 1
  /\ currentState' = After(currentState, StartCallUpdates("mic"))
  /\ peerConnection' = NewPC
  /\ dataChannel' = 1
  /\ strays' = IF peerConnection = NullPC THEN strays
               ELSE [strays EXCEPT ![StrayKind(peerConnection)] = @ + 1]
  /\ inflight' = Join(Replaced(Leave(inflight, "mic"), peerConnection),
                      "offer")
  /\ preEnd' = "none"
  /\ NotCaught /\ NoError /\ NotReceived /\ NotFired /\ NothingClosed
  /\ Record(StartCallUpdates("mic"), <<>>)
  /\ UNCHANGED <<reconnectAttempts, sessionExpiryTimeout, audioLevelInterval,
                 startBtnDisabled, endBtnDisabled, backoffs,
                 warnPending, hardTimers>>
  /\ NotStarted
  /\ UNCHANGED <<browser, endpoint>>

\* a step of startCall from one await of the handshake to the next: it
\* leaves the connection peerConnection holds as pc, the replaced
\* connections as st and the invocations as fl
Handshake(at, pc, st, fl) ==
  /\ peerConnection' = pc
  /\ strays' = st
  /\ inflight' = fl
  /\ currentState' = After(currentState, StartCallUpdates(at))
  /\ preEnd' = "none"
  /\ NotCaught /\ NoError /\ NotReceived /\ NotFired /\ NothingClosed
  /\ Record(StartCallUpdates(at), <<>>)
  /\ UNCHANGED <<reconnectAttempts, dataChannel, audioContext,
                 mediaStream, sessionExpiryTimeout, audioLevelInterval,
                 startBtnDisabled, endBtnDisabled, backoffs, warnPending,
                 hardTimers>>
  /\ NotStarted
  /\ UNCHANGED <<browser, endpoint>>

\* "offer": createOffer settles.  When it resolves on the connection
\* peerConnection holds, the invocation calls setLocalDescription(offer) on
\* that connection.
OfferFail == Catch("offer")

OfferOk ==
  /\ inflight["offer"] > 0
  /\ Handshake("offer", peerConnection, strays,
               Join(Leave(inflight, "offer"), "sld"))

\* "sld": setLocalDescription settles on the connection peerConnection
\* holds.  When it resolves the connection has its local offer and the
\* invocation starts the remote exchange.
LocalFail == Catch("sld")

LocalOk ==
  /\ inflight["sld"] > 0
  /\ Handshake("sld", [peerConnection EXCEPT !.sig = "offered"], strays,
               Join(Leave(inflight, "sld"), "sdp"))

\* "sldStray": setLocalDescription settles on a replaced connection, which
\* stays as it is for the program: the invocation will call
\* setRemoteDescription on what peerConnection holds then
StrayLocalFail == Catch("sldStray")

StrayLocalOk ==
  /\ inflight["sldStray"] > 0
  /\ Handshake("sldStray", peerConnection, strays,
               Join(Leave(inflight, "sldStray"), "sdp"))

\* "sdp": the remote offer/answer exchange settles.  It fails on a network
\* error, a non-2xx answer or, when the answer has arrived, a null
\* peerConnection (TypeError); otherwise the invocation calls
\* setRemoteDescription(answer) on the connection peerConnection holds.
\* Reading the body of the answer is a second await; nothing of the program
\* changes between the two, so they are one suspension.
SdpFail == Catch("sdp")

SdpOk ==
  /\ inflight["sdp"] > 0
  /\ peerConnection # NullPC
  /\ Handshake("sdp", peerConnection, strays,
               Join(Leave(inflight, "sdp"), "srd"))

\* "srd": setRemoteDescription settles on the connection peerConnection
\* holds; it resolves only on a connection that has a local offer and no
\* answer yet.  startCall returns after it.
RemoteFail == Catch("srd")

RemoteOk ==
  /\ inflight["srd"] > 0
  /\ peerConnection.sig = "offered"
  /\ Handshake("srd", [peerConnection EXCEPT !.sig = "stable"], strays,
               Leave(inflight, "srd"))

\* "srdStray": setRemoteDescription settles on a replaced connection, whose
\* handshake it completes when it resolves; startCall returns after it.
StrayRemoteFail == Catch("srdStray")

StrayRemoteOk ==
  /\ inflight["srdStray"] > 0
  /\ strays["signalling"] > 0
  /\ Handshake("srdStray", peerConnection,
               [strays EXCEPT !["signalling"] = @ - 1,
                              !["connecting"] = @ + 1],
               Leave(inflight, "srdStray"))

\* "lost": the pending call of the invocation rejects, or the
\* setLocalDescription it makes when its createOffer resolves throws or
\* rejects
LostFail == Catch("lost")

\* ---------------------------------------------------- handleReconnection
\* variant: one attempt more before giving up
ReconnectExhaustedLate(n) == n > MAX_RECONNECT_ATTEMPTS

\* the test at the top of handleReconnection
ReconnectExhausted(n) == n >= MAX_RECONNECT_ATTEMPTS

\* variant: the counter is never reset between attempts, so the second
\* attempt counts from the first
NextAttemptSkips(n) == n + 2

\* reconnectAttempts after reconnectAttempts++
NextAttempt(n) == n + 1

\* variant: the transport stays open during the backoff delay
HandleReconnectionKeepsTransport ==
  IF ReconnectExhausted(reconnectAttempts)
  THEN /\ EndCall(currentState, hardTimers, inflight)
       /\ NotCaught
       /\ errorShown' = "lost"
       /\ NotReceived /\ NotFired
       /\ Record(IF currentState # ERROR THEN <<DISCONNECTED>> ELSE <<>>, <<0>>)
       /\ NotStarted
       /\ UNCHANGED <<backoffs, browser, endpoint>>
  ELSE /\ Pending < MaxPending
       /\ reconnectAttempts' = NextAttempt(reconnectAttempts)
       /\ currentState' = CONNECTING
       /\ UNCHANGED <<peerConnection, dataChannel>>
       /\ backoffs' = backoffs + 1
       /\ preEnd' = "none"
       /\ NotCaught /\ NoError /\ NotReceived /\ NotFired
       /\ NothingClosed /\ NotStarted
       /\ Record(<<CONNECTING>>, <<NextAttempt(reconnectAttempts)>>)
       /\ UNCHANGED <<audioContext, mediaStream, sessionExpiryTimeout,
                      audioLevelInterval, startBtnDisabled, endBtnDisabled,
                      inflight, objects, browser, endpoint>>

\* what handleReconnection releases before its backoff delay, in its order
ReconnectCloses ==
  Opt(peerConnection # NullPC, "transport") \o Opt(dataChannel # 0, "channel")

\* handleReconnection() up to its await of the backoff delay
HandleReconnection ==
  IF ReconnectExhausted(reconnectAttempts)
  THEN /\ EndCall(currentState, hardTimers, inflight)
       /\ NotCaught
       /\ errorShown' = "lost"
       /\ NotReceived /\ NotFired
       /\ Record(IF currentState # ERROR THEN <<DISCONNECTED>> ELSE <<>>, <<0>>)
       /\ NotStarted
       /\ UNCHANGED <<backoffs, browser, endpoint>>
  ELSE /\ Pending < MaxPending
       /\ reconnectAttempts' = NextAttempt(reconnectAttempts)
       /\ currentState' = CONNECTING
       /\ peerConnection' = NullPC
       /\ dataChannel' = 0
       /\ backoffs' = backoffs + 1
       /\ preEnd' = "none"
       /\ NotCaught /\ NoError /\ NotReceived /\ NotFired
       /\ inflight' = Closed(inflight)
       /\ NotStarted
       /\ closed' = IF pure THEN ReconnectCloses ELSE <<>>
       /\ Record(<<CONNECTING>>, <<NextAttempt(reconnectAttempts)>>)
       /\ UNCHANGED <<audioContext, mediaStream, sessionExpiryTimeout,
                      audioLevelInterval, startBtnDisabled, endBtnDisabled,
                      objects, browser, endpoint>>

\* a handler that only logs, or throws before changing anything
HandlerNoEffect ==
  /\ preEnd' = "none"
  /\ NotCaught /\ NoError /\ NotReceived /\ NotFired /\ NothingClosed
  /\ Void
  /\ UNCHANGED <<globals, coroutines, objects>>
  /\ NotStarted
  /\ UNCHANGED <<browser, endpoint>>

\* variant: the reconnection goes straight to the remote exchange, with the
\* credential of the call that failed
BackoffExpireReusesCredential ==
  /\ backoffs > 0
  /\ backoffs' = backoffs - 1
  /\ inflight' = Join(inflight, "sdp")
  /\ currentState' = CONNECTING
  /\ startBtnDisabled' = TRUE
  /\ preEnd' = "none"
  /\ NotCaught /\ NoError /\ NotReceived /\ NotFired /\ NothingClosed
  /\ Record(<<CONNECTING>>, <<>>)
  /\ UNCHANGED <<reconnectAttempts, peerConnection, dataChannel, audioContext,
                 mediaStream, sessionExpiryTimeout, audioLevelInterval,
                 endBtnDisabled, objects>>
  /\ NotStarted
  /\ UNCHANGED <<browser, endpoint>>

\* the backoff delay of a handleReconnection elapses: it calls startCall
BackoffExpire ==
  /\ backoffs > 0
  /\ backoffs' = backoffs - 1
  /\ StartCallEntry

\* the values a connection reports as connectionState / iceConnectionState
ConnValues == {"ok", "disconnected", "failed"}
IceValues == {"ok", "failed"}

\* variant: a connection that is merely disconnected reconnects as well
ReconnectsWhenLost(v) == v \in {"failed", "disconnected"}

\* the test of both state-change handlers: is handleReconnection called when
\* the state read is v
Reconnects(v) == v = "failed"

\* onconnectionstatechange of the connection peerConnection holds, whose
\* connectionState has become v
ConnectionStateChange(v) ==
  /\ peerConnection.sig = "stable"
  /\ peerConnection.conn # v
  /\ IF Reconnects(v)
     THEN HandleReconnection
     ELSE /\ peerConnection' = [peerConnection EXCEPT !.conn = v]
          /\ preEnd' = "none"
          /\ NotCaught /\ NoError /\ NotReceived /\ NotFired /\ NothingClosed
          /\ NotStarted
          /\ Void
          /\ UNCHANGED <<currentState, reconnectAttempts, dataChannel,
                         audioContext, mediaStream, sessionExpiryTimeout,
                         audioLevelInterval, startBtnDisabled, endBtnDisabled,
                         coroutines, objects, browser,
                         endpoint>>

\* oniceconnectionstatechange of the connection peerConnection holds, whose
\* iceConnectionState has become v
IceConnectionStateChange(v) ==
  /\ peerConnection.sig = "stable"
  /\ IF Reconnects(v) THEN HandleReconnection ELSE HandlerNoEffect

\* a transport failure signal: either state of the connection peerConnection
\* holds becomes 'failed'
TransportFailure ==
  ConnectionStateChange("failed") \/ IceConnectionStateChange("failed")

\* a state-change handler of a stray connection: it reads the state of the
\* connection peerConnection holds (TypeError when null), which is never
\* "failed" since a failed one is closed by the handler that sees it
StrayStateChange ==
  /\ strays["connecting"] + strays["open"] > 0
  /\ HandlerNoEffect

\* ---------------------------------------------------------- data channel
\* variant: onopen keeps the counter
OnOpenAttemptsKept(n) == n

\* value dataChannel.onopen leaves in reconnectAttempts
OnOpenAttempts(n) == 0

\* body of dataChannel.onopen.  startAudioLevelMonitoring returns at once
\* without an audio context or a capture stream; otherwise it stores a new
\* sampling interval, unless one of its calls throws: its catch then leaves
\* audioLevelInterval as it was.
OnOpen ==
  /\ currentState' = CONNECTED
  /\ endBtnDisabled' = FALSE
  /\ reconnectAttempts' = OnOpenAttempts(reconnectAttempts)
  /\ IF audioContext # 0 /\ mediaStream # 0
     THEN /\ started' \in BOOLEAN
          /\ audioLevelInterval' = IF started' THEN 1 ELSE audioLevelInterval
     ELSE /\ started' = FALSE
          /\ UNCHANGED audioLevelInterval
  /\ preEnd' = "none"
  /\ NotCaught /\ NoError /\ NotReceived /\ NotFired /\ NothingClosed
  /\ Record(<<CONNECTED>>, <<OnOpenAttempts(reconnectAttempts)>>)
  /\ UNCHANGED <<dataChannel, audioContext, mediaStream, sessionExpiryTimeout,
                 startBtnDisabled, coroutines, warnPending, hardTimers>>
  /\ UNCHANGED <<browser, endpoint>>

\* the data channel of the connection peerConnection holds opens
DataChannelOpen ==
  /\ peerConnection.sig = "stable"
  /\ peerConnection.dc = "connecting"
  /\ peerConnection' = [peerConnection EXCEPT !.dc = "open"]
  /\ OnOpen
  /\ UNCHANGED strays

\* the data channel of a stray connection opens
StrayOpen ==
  /\ strays["connecting"] > 0
  /\ strays' = [strays EXCEPT !["connecting"] = @ - 1, !["open"] = @ + 1]
  /\ OnOpen
  /\ UNCHANGED peerConnection

\* variant: speech-stopped is honoured only while listening
MessageStatusGuarded(m, st) ==
  CASE m = "speech_started" -> LISTENING
    [] m = "speech_stopped" -> IF st = LISTENING THEN THINKING ELSE st
    [] m \in {"response.created", "response.done"} -> CONNECTED
    [] OTHER -> st

\* variant: the default case falls back to the idle status
MessageStatusDefaultIdle(m, st) ==
  CASE m = "speech_started" -> LISTENING
    [] m = "speech_stopped" -> THINKING
    [] m \in {"response.created", "response.done"} -> CONNECTED
    [] m = "unknown" -> IDLE
    [] OTHER -> st

\* status handleServerMessage sets for message type m when the status is st
MessageStatus(m, st) ==
  CASE m = "speech_started" -> LISTENING
    [] m = "speech_stopped" -> THINKING
    [] m \in {"response.created", "response.done"} -> CONNECTED
    [] OTHER -> st

\* does handleServerMessage call showError for message type m (an 'error'
\* event without an error object throws before the call)
MessageShowsError(m) == m \in {"error_session_expired", "error_other"}

\* where the handling of a payload of type m throws: in JSON.parse of the
\* payload ("parse"), in JSON.parse of the arguments of a confirm_booking
\* call ("args"), in the 'error' case when reading message.error.message
\* ("error"); "none" when it does not throw
Throws(m) ==
  CASE m = "badjson" -> "parse"
    [] m = "function_call_badargs" -> "args"
    [] m = "error_noobj" -> "error"
    [] OTHER -> "none"

\* the try block an exception thrown at w is caught by: that of the
\* function-call case ("case") or that of dataChannel.onmessage ("onmessage")
CaughtIn(w) ==
  CASE w = "args" -> "case"
    [] w \in {"parse", "error"} -> "onmessage"
    [] OTHER -> "none"

\* does the handling of a payload of type m throw out of dataChannel.onmessage
Escapes(m) == Throws(m) # "none" /\ CaughtIn(Throws(m)) = "none"

\* variant: a payload that is not JSON ends the call
MessageEndsCallOnBadJson(m) == m \in {"error_session_expired", "badjson"}

\* variant: no error code ends the call
MessageEndsCallNever(m) == FALSE

\* does handleServerMessage call endCall for message type m
MessageEndsCall(m) == m = "error_session_expired"

\* body of dataChannel.onmessage for a payload of type m
OnMessage(m) ==
  /\ IF MessageEndsCall(m)
     THEN /\ EndCall(currentState, hardTimers, inflight)
          /\ UNCHANGED backoffs
     ELSE /\ currentState' = MessageStatus(m, currentState)
          /\ preEnd' = "none"
          /\ NothingClosed
          /\ UNCHANGED <<reconnectAttempts, peerConnection, dataChannel,
                         audioContext, mediaStream, sessionExpiryTimeout,
                         audioLevelInterval, startBtnDisabled, endBtnDisabled,
                         coroutines, objects>>
  /\ errorShown' = IF MessageShowsError(m) THEN "server" ELSE "none"
  /\ received' = IF pure THEN m ELSE "none"
  /\ NotCaught /\ NotFired
  /\ Void
  /\ NotStarted
  /\ UNCHANGED <<browser, endpoint>>

\* a message arrives on the data channel of the connection peerConnection
\* holds
Message(m) ==
  /\ peerConnection.dc = "open"
  /\ OnMessage(m)

\* a message arrives on the data channel of a stray connection
StrayMessage(m) ==
  /\ strays["open"] > 0
  /\ OnMessage(m)

\* ----------------------------------------------------------------- timers
\* a warning timeout fires: the one sessionExpiryTimeout names (live), or
\* one it does not name
WarningFire(named) ==
  /\ IF named THEN sessionExpiryTimeout = "live"
     ELSE warnPending > (IF sessionExpiryTimeout = "live" THEN 1 ELSE 0)
  /\ warnPending' = warnPending - 1
  /\ sessionExpiryTimeout' = IF named THEN "dead" ELSE sessionExpiryTimeout
  /\ preEnd' = "none"
  /\ NotCaught /\ NoError /\ NotReceived /\ NotFired /\ NothingClosed
  /\ Void
  /\ UNCHANGED <<currentState, reconnectAttempts, peerConnection, dataChannel,
                 audioContext, mediaStream, audioLevelInterval,
                 startBtnDisabled, endBtnDisabled, coroutines,
                 strays, hardTimers>>
  /\ NotStarted
  /\ UNCHANGED <<browser, endpoint>>

\* variant: the auto-disconnect timeout only shows its notice
HardStopFireNoticeOnly(which) ==
  /\ hardTimers[which] > 0
  /\ hardTimers' = [hardTimers EXCEPT ![which] = @ - 1]
  /\ preEnd' = "none"
  /\ NotCaught /\ NoError /\ NotReceived /\ NothingClosed
  /\ fired' = IF pure THEN which ELSE "none"
  /\ Void
  /\ UNCHANGED <<globals, coroutines, strays, warnPending>>
  /\ NotStarted
  /\ UNCHANGED <<browser, endpoint>>

\* an auto-disconnect timeout fires: that of the session in progress
\* ("cur") or one of an earlier session ("old")
HardStopFire(which) ==
  /\ hardTimers[which] > 0
  /\ EndCall(currentState, [hardTimers EXCEPT ![which] = @ - 1], inflight)
  /\ NotCaught /\ NoError /\ NotReceived
  /\ fired' = IF pure THEN which ELSE "none"
  /\ Void
  /\ UNCHANGED backoffs
  /\ NotStarted
  /\ UNCHANGED <<browser, endpoint>>

\* ------------------------------------------------------------------ Next
Next ==
  \/ Load
  \/ StartClick
  \/ EndClick
  \/ BeforeUnload
  \/ BackoffExpire
  \/ TokenOk
  \/ TokenFail
  \/ MicOk
  \/ \E at \in {"context", "transport"} : MicOkThrows(at)
  \/ MicFail
  \/ OfferOk
  \/ OfferFail
  \/ LocalOk
  \/ LocalFail
  \/ StrayLocalOk
  \/ StrayLocalFail
  \/ SdpOk
  \/ SdpFail
  \/ RemoteOk
  \/ RemoteFail
  \/ StrayRemoteOk
  \/ StrayRemoteFail
  \/ LostFail
  \/ DataChannelOpen
  \/ StrayOpen
  \/ \E m \in MessageTypes : Message(m)
  \/ \E m \in MessageTypes : StrayMessage(m)
  \/ \E v \in ConnValues : ConnectionStateChange(v)
  \/ \E v \in IceValues : IceConnectionStateChange(v)
  \/ StrayStateChange
  \/ \E named \in BOOLEAN : WarningFire(named)
  \/ \E which \in {"cur", "old"} : HardStopFire(which)

Spec == Init /\ [][Next]_vars

TypeOK ==
  /\ currentState \in ConnectionState
  /\ reconnectAttempts \in 0..(MAX_RECONNECT_ATTEMPTS + 1)
  /\ peerConnection.sig \in {"null", "new", "offered", "stable"}
  /\ (dataChannel = 0) = (peerConnection = NullPC)
  /\ audioContext = mediaStream
  /\ warnPending \in 0..2
  /\ Pending <= MaxPending
  /\ Count(strays) <= MaxStrays
  /\ inflight["offer"] + inflight["sld"] <= 1
  /\ inflight["offer"] + inflight["sld"] > 0 => peerConnection.sig = "new"
  /\ inflight["srd"] > 0 => peerConnection # NullPC
  /\ inflight["srdStray"] > 0 =>
       strays["signalling"] + strays["connecting"] + strays["open"] > 0

\* ------------------------------------------------ token endpoint: handler
\* req.headers['x-forwarded-for'] || req.socket.remoteAddress
ClientIp(xff, remote) == IF xff # "" THEN xff ELSE remote

\* variant: the limit test lets one request more through
LimitedAbove(map, ip, t) ==
  /\ ip \in DOMAIN map
  /\ t - map[ip].timestamp < RATE_LIMIT_WINDOW
  /\ map[ip].count > MAX_SESSIONS_PER_IP

\* is a POST of key ip at time t answered 429
Limited(map, ip, t) ==
  /\ ip \in DOMAIN map
  /\ t - map[ip].timestamp < RATE_LIMIT_WINDOW
  /\ map[ip].count >= MAX_SESSIONS_PER_IP

\* the Map after the rate-limit branch has counted a POST of key ip at time t
CountPost(map, ip, t) ==
  IF ip \in DOMAIN map /\ t - map[ip].timestamp < RATE_LIMIT_WINDOW
  THEN [map EXCEPT ![ip].count = @ + 1]
  ELSE [k \in DOMAIN map \cup {ip} |->
          IF k = ip THEN [count |-> 1, timestamp |-> t] ELSE map[k]]

\* variant: entries are kept for two windows
StaleAfterTwoWindows(e, t) == t - e.timestamp > 2 * RATE_LIMIT_WINDOW

\* the test of the clean-up loop on entry e at time t
Stale(e, t) == t - e.timestamp > RATE_LIMIT_WINDOW

\* the Map after the clean-up loop at time t
CleanUp(map, t) == [k \in {j \in DOMAIN map : ~Stale(map[j], t)} |-> map[k]]

\* the statuses of an upstream answer that is not ok, which the handler
\* passes on as they are
Refusals == {400, 401, 403, 429, 503}

\* the statuses the handler answers with once its upstream request has
\* settled: 200, the status of a refused upstream request, or 500 when the
\* request or the reading of its body threw
Outcomes == {200, 500} \cup Refusals

\* counted after a POST of key ip passed the rate-limit check at time t
CountedAfter(ip, t) ==
  IF ip \in DOMAIN counted /\ t - counted[ip].first < RATE_LIMIT_WINDOW
  THEN [counted EXCEPT ![ip].n = @ + 1]
  ELSE [k \in DOMAIN counted \cup {ip} |->
          IF k = ip THEN [first |-> t, n |-> 1] ELSE counted[k]]

\* handler(req, res) for a request of the given method, x-forwarded-for
\* header and remote address, up to its return or to its first await (the
\* upstream request): the method tests, the rate-limit branch, the clean-up
\* loop and the test of the API key run without an await.
Handler(method, xff, remote) ==
  /\ IF method = "OPTIONS"
     THEN /\ answer' = [method |-> method, ip |-> "", status |-> 200,
                        check |-> "none"]
          /\ UNCHANGED <<rateLimitMap, counted, upstream>>
     ELSE IF method # "POST"
     THEN /\ answer' = [method |-> method, ip |-> "", status |-> 405,
                        check |-> "none"]
          /\ UNCHANGED <<rateLimitMap, counted, upstream>>
     ELSE IF Limited(rateLimitMap, ClientIp(xff, remote), now)
     THEN /\ answer' = [method |-> method, ip |-> ClientIp(xff, remote),
                        status |-> 429, check |-> "limited"]
          /\ UNCHANGED <<rateLimitMap, counted, upstream>>
     ELSE /\ keyConfigured => upstream < MaxUpstream
          /\ rateLimitMap' =
               CleanUp(CountPost(rateLimitMap, ClientIp(xff, remote), now), now)
          /\ counted' = CountedAfter(ClientIp(xff, remote), now)
          /\ answer' = [method |-> method, ip |-> ClientIp(xff, remote),
                        status |-> IF keyConfigured THEN 0 ELSE 500,
                        check |-> "passed"]
          /\ upstream' = IF keyConfigured THEN upstream + 1 ELSE upstream
  /\ UNCHANGED <<now, keyConfigured, globals, coroutines, objects, history,
                 browser>>

\* the upstream request of a suspended invocation settles and the handler
\* answers with status st.  Reading the body of the upstream
\* answer is a second await; nothing of the module changes between the two,
\* so they are one suspension.
HandlerResumes(st) ==
  /\ upstream > 0
  /\ upstream' = upstream - 1
  /\ answer' = [method |-> "POST", ip |-> "", status |-> st, check |-> "none"]
  /\ UNCHANGED <<now, rateLimitMap, counted, keyConfigured, globals,
                 coroutines, objects, history, browser>>

\* time passes
Tick(t) ==
  /\ t > now
  /\ now' = t
  /\ answer' = NoAnswer
  /\ UNCHANGED <<rateLimitMap, counted, upstream, keyConfigured, globals,
                 coroutines, objects, history, browser>>

NextEndpoint ==
  \/ \E t \in Instants : Tick(t)
  \/ \E method \in Methods, xff \in Forwarded, remote \in Keys :
       Handler(method, xff, remote)
  \/ \E st \in Outcomes : HandlerResumes(st)

\* the endpoint on its own; nothing is said of the page, which stays as
\* loaded
InitEndpoint == Loaded /\ endBtnDisabled /\ missing = {}

SpecEndpoint == InitEndpoint /\ [][NextEndpoint]_vars

\* ================================================================ claims
Active == {CONNECTED, LISTENING, THINKING}

\* transports that are open: the one peerConnection holds and the strays
LiveTransports == (IF peerConnection # NullPC THEN 1 ELSE 0) + Count(strays)

\* every handle variable endCall releases is null
HandlesReleased ==
  /\ peerConnection = NullPC
  /\ dataChannel = 0
  /\ mediaStream = 0
  /\ audioContext = 0
  /\ audioLevelInterval = 0
  /\ sessionExpiryTimeout = "null"

\* C1: whenever endCall has just run, the status is Disconnected if the
\* status at its entry was not Error, and still Error if it was Error.
C1_StopStatus ==
  preEnd # "none" =>
    currentState = (IF preEnd # ERROR THEN DISCONNECTED ELSE ERROR)

\* endCall ran from an active call, through a path other than the catch block
C1_Witness ==
  preEnd \in Active /\ caught = "none" /\ currentState = DISCONNECTED

\* C2 (as stated): whenever endCall has just run, nothing is left live: the
\* transport, control channel, capture stream and audio context are released
\* and no warning or auto-disconnect timeout is pending.
C2_ZeroLiveHandles ==
  preEnd # "none" =>
    /\ HandlesReleased
    /\ warnPending = 0
    /\ hardTimers.cur + hardTimers.old = 0

\* C3: reconnectAttempts is within 0..MAX_RECONNECT_ATTEMPTS in every
\* reachable state.
C3_CounterBounded == reconnectAttempts \in 0..MAX_RECONNECT_ATTEMPTS

\* the counter reaches its bound
C3_Witness == reconnectAttempts = MAX_RECONNECT_ATTEMPTS

\* C4 (as stated): a transport failure signal that arrives while
\* reconnectAttempts equals MAX_RECONNECT_ATTEMPTS sets the status to Error
\* and schedules no further reconnection attempt.
C4_ExhaustedGivesError ==
  [][(TransportFailure /\ reconnectAttempts = MAX_RECONNECT_ATTEMPTS) =>
       (currentState' = ERROR /\ backoffs' = backoffs /\ Pending' = Pending)]_vars

\* C5: every control-channel open event leaves reconnectAttempts at 0,
\* whatever its value before the event.
C5_OpenResetsCounter ==
  [][(DataChannelOpen \/ StrayOpen) => reconnectAttempts' = 0]_vars

\* the channel of a reconnection attempt opened: the counter went 0, 1, 0
C5_Witness ==
  pure /\ attemptLog = <<0, 1, 0>> /\ currentState = CONNECTED

\* the run from page load is one start sequence without a failure, ended by
\* the first control-channel open
StartScenarioDone ==
  /\ pure
  /\ attemptLog = <<0>>
  /\ statusLog # <<>>
  /\ statusLog[Len(statusLog)] = CONNECTED

\* C6 (as stated): the start scenario produces exactly the status sequence
\* Connecting, Connecting, Connected and ends with reconnectAttempts = 0.
C6_TwoConnecting ==
  StartScenarioDone =>
    /\ statusLog = <<CONNECTING, CONNECTING, CONNECTED>>
    /\ reconnectAttempts = 0

\* C6 (amended): the start scenario produces exactly the status sequence
\* Connecting, Connecting, Connecting, Connected (one update on entry, one
\* after the token response, one after the capture stream is granted) and
\* ends with reconnectAttempts = 0.
C6_ThreeConnecting ==
  StartScenarioDone =>
    /\ statusLog = <<CONNECTING, CONNECTING, CONNECTING, CONNECTED>>
    /\ reconnectAttempts = 0

C6_Witness ==
  /\ StartScenarioDone
  /\ statusLog = <<CONNECTING, CONNECTING, CONNECTING, CONNECTED>>
  /\ currentState = CONNECTED
  /\ peerConnection.dc = "open"

\* C7: a step in which a start sequence fails (at the token request, at
\* getUserMedia, at the offer or at the remote exchange) surfaces exactly one
\* error, runs full teardown, ends with status Error and the counter at 0,
\* and schedules no reconnection: no backoff delay starts and no startCall
\* is entered.
C7_StartFailure ==
  [][caught' # "none" =>
       /\ errorShown' = "start"
       /\ preEnd' = ERROR
       /\ HandlesReleased'
       /\ currentState' = ERROR
       /\ reconnectAttempts' = 0
       /\ backoffs' = backoffs
       /\ inflight' = Closed(Leave(inflight, caught'))]_vars

\* the remote exchange of the first start sequence of the page was rejected
C7_Witness ==
  /\ pure
  /\ caught = "sdp"
  /\ statusLog = <<CONNECTING, CONNECTING, CONNECTING, ERROR>>
  /\ attemptLog = <<0>>
  /\ Pending = 0

\* the run from page load is: a start that connects, a transport failure,
\* the reconnection attempt that connects, a second transport failure
TwoFailuresScenarioDone ==
  /\ pure
  /\ statusLog = <<CONNECTING, CONNECTING, CONNECTING, CONNECTED,
                   CONNECTING,
                   CONNECTING, CONNECTING, CONNECTING, CONNECTED,
                   CONNECTING>>

\* C8 (as stated): in the two-failures scenario reconnectAttempts is 1 at
\* the first failure and 2 at the second.
C8_CounterOneTwo ==
  TwoFailuresScenarioDone =>
    attemptLog = <<0, 1, 0, 2>> /\ reconnectAttempts = 2

\* C8 (amended): in the two-failures scenario reconnectAttempts is 1 at the
\* first failure, back to 0 when the channel of the reconnection attempt
\* opens, and 1 again at the second failure; the status goes Connecting then
\* Connected around each attempt.
C8_CounterOneOne ==
  TwoFailuresScenarioDone =>
    attemptLog = <<0, 1, 0, 1>> /\ reconnectAttempts = 1

C8_Witness ==
  /\ TwoFailuresScenarioDone
  /\ reconnectAttempts = 1
  /\ backoffs = 1

\* handles, counters and controls a message handler could change
Session == <<globals, coroutines, objects>>

\* C9: an error message with code session_expired that arrives on the open
\* control channel of the call ends the call in the same step (every handle
\* released, status Disconnected) although the auto-disconnect timeout has
\* not fired; an error message with any other code changes neither the
\* status nor any handle.
C9_SessionExpired ==
  [][/\ Message("error_session_expired") =>
          /\ HandlesReleased'
          /\ currentState' = DISCONNECTED
          /\ preEnd' = currentState
          /\ hardTimers'.old = hardTimers.old + hardTimers.cur
     /\ Message("error_other") =>
          /\ UNCHANGED Session
          /\ preEnd' = "none"]_vars

\* session_expired arrived during an active call whose auto-disconnect
\* timeout was still pending
C9_Witness ==
  /\ errorShown = "server"
  /\ preEnd \in Active
  /\ currentState = DISCONNECTED
  /\ HandlesReleased
  /\ strays = NoStrays
  /\ hardTimers.old > 0

\* C10 (as stated): at no time are two transports open at once.
C10_SingleTransport == LiveTransports <= 1

\* a suspended start or reconnection sequence resumes: an await of startCall
\* settles, or the backoff delay of handleReconnection elapses
SuspendedStepSettles ==
  \/ TokenOk \/ TokenFail \/ MicOk \/ MicFail
  \/ \E at \in {"context", "transport"} : MicOkThrows(at)
  \/ OfferOk \/ OfferFail \/ LocalOk \/ LocalFail
  \/ StrayLocalOk \/ StrayLocalFail \/ SdpOk \/ SdpFail
  \/ RemoteOk \/ RemoteFail \/ StrayRemoteOk \/ StrayRemoteFail
  \/ LostFail
  \/ BackoffExpire

\* C11 (as stated): when endCall has run while a start or reconnection
\* sequence was suspended (the status is Disconnected and the sequence is
\* still pending), the step in which the suspended operation settles discards
\* its result: the sequence ends there, acquires no capture stream, audio
\* context or transport, arms no timer, and every handle stays released.
C11_ResultDiscarded ==
  [][(currentState = DISCONNECTED /\ Pending > 0 /\ SuspendedStepSettles) =>
       /\ Pending' = Pending - 1
       /\ HandlesReleased'
       /\ warnPending' = warnPending
       /\ hardTimers' = hardTimers]_vars

\* C12 (as stated): when a start attempt fails (its catch block runs and the
\* status is Error), everything the attempt acquired is released: every handle
\* is null, no warning timeout is pending, and the auto-disconnect timeout of
\* the session the attempt established is no longer pending.
C12_FailedStartReleasesAll ==
  [][caught' # "none" =>
       /\ currentState' = ERROR
       /\ HandlesReleased'
       /\ warnPending' = 0
       /\ hardTimers'.cur + hardTimers'.old <= hardTimers.old]_vars

\* C13 (as stated): during a reconnection attempt (from the transport failure
\* that raised reconnectAttempts above 0 until the step that resets it) no
\* token request and no microphone request is issued, and the capture-stream
\* and audio-context handles keep the objects they held before the failure.
C13_ReconnectKeepsSession ==
  [][(reconnectAttempts > 0 /\ reconnectAttempts' > 0) =>
       /\ inflight'["token"] <= inflight["token"]
       /\ inflight'["mic"] <= inflight["mic"]
       /\ mediaStream' = mediaStream
       /\ audioContext' = audioContext]_vars

\* C14 (as stated): in every reachable state at most one warning timeout and
\* at most one auto-disconnect timeout are pending.
C14_OnePairOfTimers ==
  /\ warnPending <= 1
  /\ hardTimers.cur + hardTimers.old <= 1

\* C15 (as stated): for every expiry d ms from now, a token response arms a
\* warning timeout and an auto-disconnect timeout when d is more than 60 s,
\* and no warning timeout but still an auto-disconnect timeout when d is
\* less than 60 s.
C15_ArmedForEveryExpiry ==
  [][\A d \in ExpiryDeltas :
       TokenOkWith(d) =>
         /\ d > 60000 => (sessionExpiryTimeout' = "live" /\ hardTimers'.cur = 1)
         /\ d < 60000 => (sessionExpiryTimeout' # "live" /\ hardTimers'.cur = 1)]_vars

\* C15 (amended): a token response arms a warning timeout exactly when the
\* expiry is more than 60 s from now, and an auto-disconnect timeout exactly
\* when the expiry is in the future; an expiry that is not after the present
\* arms neither.
C15_ArmedForFutureExpiry ==
  [][\A d \in ExpiryDeltas :
       TokenOkWith(d) =>
         /\ (sessionExpiryTimeout' = "live") = (d > 60000)
         /\ warnPending' = (IF d > 60000 THEN 1 ELSE 0)
         /\ (hardTimers'.cur = 1) = (d > 0)
         /\ hardTimers'.cur \in {0, 1}]_vars

\* a token response with an expiry less than 60 s ahead was handled: no
\* warning timeout, one auto-disconnect timeout
C15_Witness ==
  /\ inflight["mic"] = 1
  /\ hardTimers = [cur |-> 1, old |-> 0]
  /\ warnPending = 0
  /\ sessionExpiryTimeout = "null"
  /\ statusLog = <<CONNECTING, CONNECTING>>

\* C16: a control-channel message of an unrecognized type, on the channel of
\* the current connection or of any other open connection, changes neither
\* the status, nor the counter, nor any handle, timer or control, shows no
\* error and runs no teardown.
C16_UnknownTypeIgnored ==
  [][(Message("unknown") \/ StrayMessage("unknown")) =>
       /\ UNCHANGED Session
       /\ errorShown' = "none"
       /\ preEnd' = "none"]_vars

\* an unrecognized message was dispatched during a connected call
C16_Witness ==
  /\ received = "unknown"
  /\ currentState = CONNECTED
  /\ peerConnection.dc = "open"
  /\ reconnectAttempts = 0

\* endCall runs in a state it has already torn down: the handles are
\* released and the status at its entry is Disconnected or Error
TeardownAgain ==
  /\ HandlesReleased
  /\ preEnd' \in {DISCONNECTED, ERROR}

\* C17 (as stated): endCall run again on released handles changes neither
\* the status, nor the counter, nor any handle; and under every combination
\* of teardown triggers every transport that was created gets closed: none
\* stays open without a variable referring to it.
C17_TeardownOnce ==
  /\ [][TeardownAgain =>
          /\ currentState' = preEnd'
          /\ reconnectAttempts' = reconnectAttempts
          /\ HandlesReleased'
          /\ warnPending' = warnPending
          /\ strays' = strays]_vars
  /\ [](Count(strays) = 0)

\* C18 (as stated): once the status is Disconnected or Error, the only step
\* that changes it is a click on Start; no backoff expiry, resumed start
\* step, control-channel event or timer does.
C18_TerminalStatus ==
  [][(currentState \in {DISCONNECTED, ERROR} /\ currentState' # currentState)
       => StartClick]_vars

\* a transport is constructed in the step: peerConnection holds a new one
\* that it did not hold before, or that pushed the previous one aside
TransportConstructed ==
  /\ peerConnection'.sig = "new"
  /\ peerConnection.sig # "new" \/ Count(strays') > Count(strays)

\* C19: startCall requests the microphone only in the step in which its
\* token request succeeded, and constructs the transport only in the step in
\* which getUserMedia succeeded; a token failure ends the invocation with no
\* microphone request and no transport, a getUserMedia failure ends it with
\* no transport, and both run full teardown and leave the status Error.
C19_StartOrder ==
  [][/\ inflight'["mic"] > inflight["mic"] =>
          inflight'["token"] < inflight["token"]
     /\ TransportConstructed => inflight'["mic"] < inflight["mic"]
     /\ caught' \in {"token", "mic"} =>
          /\ inflight' = Closed(Leave(inflight, caught'))
          /\ ~TransportConstructed
          /\ HandlesReleased'
          /\ preEnd' = ERROR
          /\ currentState' = ERROR]_vars

\* the first start of the page was refused the microphone: two status
\* updates, then Error, nothing acquired and nothing pending
C19_Witness ==
  /\ pure
  /\ caught = "mic"
  /\ statusLog = <<CONNECTING, CONNECTING, ERROR>>
  /\ HandlesReleased
  /\ Pending = 0
  /\ strays = NoStrays

\* C20: a transport failure signal that arrives while reconnectAttempts is
\* below MAX_RECONNECT_ATTEMPTS raises the counter by exactly one, sets the
\* status to Connecting and closes the transport and the control channel,
\* all in the step that starts the backoff delay; the capture stream, audio
\* context and timers are left as they are.
C20_FailureStartsReconnect ==
  [][(TransportFailure /\ reconnectAttempts < MAX_RECONNECT_ATTEMPTS) =>
       /\ reconnectAttempts' = reconnectAttempts + 1
       /\ currentState' = CONNECTING
       /\ peerConnection' = NullPC
       /\ dataChannel' = 0
       /\ backoffs' = backoffs + 1
       /\ inflight' = Closed(inflight)
       /\ UNCHANGED <<mediaStream, audioContext, sessionExpiryTimeout,
                      objects>>]_vars

\* the first failure of a connected call: counter 1, status Connecting,
\* transport and channel gone, the backoff delay running
C20_Witness ==
  /\ pure
  /\ attemptLog = <<0, 1>>
  /\ statusLog = <<CONNECTING, CONNECTING, CONNECTING, CONNECTED, CONNECTING>>
  /\ peerConnection = NullPC
  /\ dataChannel = 0
  /\ backoffs = 1
  /\ mediaStream = 1

\* C21: a connectionState change to 'disconnected' changes neither the
\* counter, nor the status, nor any handle, timer or pending sequence, and the
\* connection stays open; a reconnection (a backoff delay starts, or the
\* "connection lost" error of the exhausted counter is shown) happens only in
\* a step in which connectionState or iceConnectionState became 'failed'.
C21_OnlyFailedReconnects ==
  [][/\ ConnectionStateChange("disconnected") =>
          /\ reconnectAttempts' = reconnectAttempts
          /\ currentState' = currentState
          /\ peerConnection'.sig = peerConnection.sig
          /\ peerConnection'.dc = peerConnection.dc
          /\ UNCHANGED <<dataChannel, audioContext, mediaStream,
                         sessionExpiryTimeout, audioLevelInterval,
                         coroutines, objects>>
          /\ errorShown' = "none"
          /\ preEnd' = "none"
     /\ (backoffs' > backoffs \/ errorShown' = "lost") => TransportFailure]_vars

\* the transport of a connected call reported 'disconnected': the call goes on
C21_Witness ==
  /\ peerConnection.conn = "disconnected"
  /\ peerConnection.dc = "open"
  /\ currentState \in Active
  /\ reconnectAttempts = 0
  /\ Pending = 0

\* C22: each status-bearing control-channel message is handled in the step
\* of its arrival and sets the status whatever the status before it, on the
\* channel of the current connection or of any other open connection:
\* speech-started gives Listening, speech-stopped Thinking, response-created
\* and response-done Connected.  So after any sequence of such messages the
\* status is the one the last of them dictates.  (Stated step by step: a step
\* that ends in another status is not the handling of that message.)
C22_LastMessageDecides ==
  [][/\ currentState' # LISTENING =>
          ~(Message("speech_started") \/ StrayMessage("speech_started"))
     /\ currentState' # THINKING =>
          ~(Message("speech_stopped") \/ StrayMessage("speech_stopped"))
     /\ currentState' # CONNECTED =>
          /\ ~(Message("response.created") \/ StrayMessage("response.created"))
          /\ ~(Message("response.done") \/ StrayMessage("response.done"))]_vars

\* speech-stopped arrived as the first message of a call, with no
\* speech-started before it: the status is Thinking
C22_Witness ==
  /\ received = "speech_stopped"
  /\ currentState = THINKING
  /\ peerConnection.dc = "open"

\* payloads that are dropped or only displayed
Dropped ==
  {"badjson", "function_call_badargs", "transcript", "rate_limits.updated"}

\* C23: a payload that is not JSON, and a function-call-done event whose
\* arguments do not parse, throw nothing out of the message handler; they,
\* transcript events and rate-limit updates change neither the status, nor
\* the counter, nor any handle, timer, control or pending sequence, show no
\* error and run no teardown.  (Stated step by step: a step that changes any
\* of these is not the handling of such a payload.)
C23_DroppedLocally ==
  /\ \A m \in Dropped : ~Escapes(m)
  /\ [][~(UNCHANGED Session /\ errorShown' = "none" /\ preEnd' = "none") =>
          \A m \in Dropped : ~(Message(m) \/ StrayMessage(m))]_vars

\* a payload that is not JSON arrived during a connected call, which goes on
C23_Witness ==
  /\ received = "badjson"
  /\ Throws(received) = "parse"
  /\ currentState = CONNECTED
  /\ peerConnection.dc = "open"
  /\ errorShown = "none"
  /\ preEnd = "none"

\* C24: when an auto-disconnect timeout fires while the status is Connected,
\* Listening or Thinking, endCall runs in that step: every handle is
\* released, the warning timeout the program names is cleared, and the
\* status becomes Disconnected.
C24_HardStopEndsCall ==
  [][(currentState \in Active /\ \E which \in {"cur", "old"} : HardStopFire(which)) =>
       /\ preEnd' = currentState
       /\ HandlesReleased'
       /\ warnPending' = ClearTimeout(warnPending, sessionExpiryTimeout)
       /\ currentState' = DISCONNECTED]_vars

\* the auto-disconnect timeout of a connected call fired and released the
\* channel, the transport, the capture stream and the audio context
C24_Witness ==
  /\ fired = "cur"
  /\ preEnd = CONNECTED
  /\ currentState = DISCONNECTED
  /\ HandlesReleased
  /\ Len(closed) >= 5

\* the place of each release in the teardown order: timers, monitor, control
\* channel, transport, media tracks, audio context
TeardownRank(x) ==
  CASE x = "timers" -> 1
    [] x = "monitor" -> 2
    [] x = "channel" -> 3
    [] x = "transport" -> 4
    [] x = "tracks" -> 5
    [] x = "context" -> 6

\* C25 (as stated): whatever a step releases, it releases in the teardown
\* order; in particular a step that closes both the control channel and the
\* transport (endCall, or handleReconnection before its backoff delay) closes
\* the control channel first.
C25_TeardownOrder ==
  \A i, j \in 1..Len(closed) :
    i < j => TeardownRank(closed[i]) <= TeardownRank(closed[j])

\* C26: a startCall invocation holds the credential of its own token
\* response from the step that handles the response, and presents it in the
\* one remote exchange it starts when its offer is set.  A remote exchange
\* starts only in a step in which the setLocalDescription of one invocation
\* resolves, an invocation calls setLocalDescription only when its
\* createOffer resolves, createOffer only from its microphone request, and
\* makes its microphone request only from its own token response: no invocation,
\* started by a click or by a reconnection, presents a credential a second
\* time or presents that of another.
C26_CredentialUsedOnce ==
  [][/\ inflight'["sdp"] > inflight["sdp"] =>
          /\ inflight'["sdp"] = inflight["sdp"] + 1
          /\ inflight'["sld"] + inflight'["sldStray"]
               = inflight["sld"] + inflight["sldStray"] - 1
     /\ inflight'["sld"] > inflight["sld"] =>
          /\ inflight'["sld"] = inflight["sld"] + 1
          /\ inflight'["offer"] = inflight["offer"] - 1
     /\ inflight'["sldStray"] > inflight["sldStray"] =>
          inflight'["sld"] + inflight'["sldStray"]
            = inflight["sld"] + inflight["sldStray"]
     /\ inflight'["offer"] > inflight["offer"] =>
          /\ inflight'["offer"] = inflight["offer"] + 1
          /\ inflight'["mic"] = inflight["mic"] - 1
     /\ inflight'["mic"] > inflight["mic"] =>
          /\ inflight'["mic"] = inflight["mic"] + 1
          /\ inflight'["token"] = inflight["token"] - 1]_vars

\* the start sequence of a reconnection has obtained a token of its own and
\* is in its remote exchange
C26_Witness ==
  /\ pure
  /\ attemptLog = <<0, 1>>
  /\ statusLog = <<CONNECTING, CONNECTING, CONNECTING, CONNECTED,
                   CONNECTING, CONNECTING, CONNECTING, CONNECTING>>
  /\ inflight = [NoInvocations EXCEPT !["sdp"] = 1]
  /\ backoffs = 0

\* C27 (as stated): an auto-disconnect timeout that fires while a call is in
\* progress (status Connecting, Connected, Listening or Thinking) is the one
\* armed for that call: a timeout left from a call that was stopped, that
\* failed or that a reconnection replaced never tears down a later call.
C27_TimerEndsOwnSession ==
  fired = "old" => preEnd \notin Active \cup {CONNECTING}

\* C28 (as stated): at most one start or reconnection sequence is pending at
\* any time: startCall is never entered, by a click on Start or by the expiry
\* of a backoff delay, while an earlier startCall has not returned or a
\* backoff delay is running.
C28_OneSequence == Pending <= 1

\* C29: when the start sequence of a reconnection attempt fails (the catch
\* block of startCall runs while reconnectAttempts is above 0, at whichever
\* await the invocation was suspended: token, device or handshake), the step
\* shows the start error and not the "connection lost" error, runs endCall
\* from status Error and ends with status Error, every handle released and
\* the counter at 0.  It makes no further reconnection attempt, although the
\* counter may be below MAX_RECONNECT_ATTEMPTS: no backoff delay starts, no
\* startCall is entered, and exactly the invocation that failed ends
\* (startCall does not rethrow, so the catch of handleReconnection, which
\* would call handleReconnection again, is never taken).
C29_FailedReconnectEnds ==
  [][(caught' # "none" /\ reconnectAttempts > 0) =>
       /\ errorShown' = "start"
       /\ preEnd' = ERROR
       /\ HandlesReleased'
       /\ currentState' = ERROR
       /\ reconnectAttempts' = 0
       /\ backoffs' = backoffs
       /\ Pending' = Pending - 1
       /\ inflight' = Closed(Leave(inflight, caught'))]_vars

\* the token request of the first reconnection attempt of a call failed
\* while the counter was 1, below MAX_RECONNECT_ATTEMPTS: the counter went
\* 0, 1, 0, the status ended Error and nothing is pending
C29_Witness ==
  /\ pure
  /\ caught = "token"
  /\ attemptLog = <<0, 1, 0>>
  /\ statusLog = <<CONNECTING, CONNECTING, CONNECTING, CONNECTED,
                   CONNECTING, CONNECTING, ERROR>>
  /\ currentState = ERROR
  /\ HandlesReleased
  /\ Pending = 0

\* C30 (as stated): whenever the status is Connected, Listening or Thinking,
\* peerConnection and dataChannel both hold an open object (the program
\* nulls each handle in the step that closes its object).
C30_ActiveHasTransport ==
  currentState \in Active => (peerConnection # NullPC /\ dataChannel # 0)

\* a control-channel open starts a sampling interval:
\* startAudioLevelMonitoring passes its test of the audio context and the
\* capture stream, and none of its calls throws
StartsInterval ==
  /\ DataChannelOpen \/ StrayOpen
  /\ started'

\* C31 (as stated): at most one sampling interval is live at any time: a
\* control-channel open starts one only when none is live, after any number
\* of reconnections; and none is live after endCall.
C31_OneInterval ==
  /\ [][StartsInterval => audioLevelInterval = 0]_vars
  /\ [](preEnd # "none" => audioLevelInterval = 0)

\* an admitted POST: one that passed the rate-limit check in the step,
\* whatever status the handler answers it with, then or later
Admitted(a) == a.method = "POST" /\ a.check = "passed"

\* C32: for each key, at most MAX_SESSIONS_PER_IP POSTs pass the rate-limit
\* check within one RATE_LIMIT_WINDOW measured from the first counted POST of
\* that window; the count stored for a key is never above
\* MAX_SESSIONS_PER_IP; and a POST of a key whose window is open and full is
\* answered 429 in the step that receives it, is counted nowhere and makes
\* no upstream request.
C32_RateLimit ==
  /\ [](\A k \in Keys :
         /\ k \in DOMAIN counted => counted[k].n <= MAX_SESSIONS_PER_IP
         /\ k \in DOMAIN rateLimitMap =>
              rateLimitMap[k].count \in 1..MAX_SESSIONS_PER_IP)
  /\ [][(/\ answer'.method = "POST"
         /\ answer'.check # "none"
         /\ answer'.ip \in DOMAIN counted
         /\ counted[answer'.ip].n = MAX_SESSIONS_PER_IP
         /\ now - counted[answer'.ip].first < RATE_LIMIT_WINDOW)
        => /\ answer'.status = 429
           /\ answer'.check = "limited"
           /\ UNCHANGED <<rateLimitMap, counted, upstream>>]_vars

\* the eleventh POST of key "a" in a window that started at 0, one
\* millisecond before the window ends, was answered 429 while the tenth was
\* still waiting for its upstream request
C32_Witness ==
  /\ answer = [method |-> "POST", ip |-> "a", status |-> 429,
               check |-> "limited"]
  /\ upstream > 0
  /\ "a" \in DOMAIN counted
  /\ counted["a"] = [first |-> 0, n |-> MAX_SESSIONS_PER_IP]
  /\ now = RATE_LIMIT_WINDOW - 1
  /\ "a" \in DOMAIN rateLimitMap
  /\ rateLimitMap["a"] = [count |-> MAX_SESSIONS_PER_IP, timestamp |-> 0]

\* C33: only the step that admits a POST changes the Map (an OPTIONS
\* request, a request of another method, a POST the rate-limit branch
\* refuses with 429 and the later answer to an admitted POST leave it as it
\* was), and after the step that admits a POST the Map holds no entry whose
\* window started more than RATE_LIMIT_WINDOW ago.
C33_OnlyAdmittedTouchMap ==
  /\ [][rateLimitMap' # rateLimitMap => Admitted(answer')]_vars
  /\ [](Admitted(answer) =>
         \A k \in DOMAIN rateLimitMap :
            now - rateLimitMap[k].timestamp <= RATE_LIMIT_WINDOW)

\* an admitted POST of key "b" removed the entry of key "a", whose window
\* had started more than RATE_LIMIT_WINDOW before
C33_Witness ==
  /\ Admitted(answer)
  /\ answer.ip = "b"
  /\ "a" \in DOMAIN counted
  /\ now - counted["a"].first > RATE_LIMIT_WINDOW
  /\ "a" \notin DOMAIN rateLimitMap
  /\ "b" \in DOMAIN rateLimitMap

====
